---- MODULE Spec2Model ----
(***************************************************************************)
(* Model of start.py, the interactive launcher of the autonomous coding    *)
(* agent: the main menu loop, the new-project flow, the project selection  *)
(* and the two blocking child processes (the "claude /create-spec"         *)
(* authoring tool and the build agent).                                    *)
(*                                                                         *)
(* Console lines and names are sequences of one-character strings, so that *)
(* strip(), lower(), the invalid-character scan, int() and sorted() are    *)
(* computed as the code computes them.                                     *)
(***************************************************************************)
EXTENDS Integers, Sequences, FiniteSets, TLC

\* ------------------------------------------------------------------ bounds
\* longest line typed at the project-name prompt
MaxLen == 2
\* largest number of entries under generations/
MaxStore == 2

\* ------------------------------------------------------- strings and lists
\* Python's None
None == <<"<None>">>

Range(s) == {s[i] : i \in 1..Len(s)}

SeqsUpTo(S, n) == UNION {[1..k -> S] : k \in 0..n}

\* characters str.strip() removes
Whitespace == {" "}

RECURSIVE LStrip(_)
LStrip(s) ==
    IF s # <<>> /\ Head(s) \in Whitespace THEN LStrip(Tail(s)) ELSE s

RECURSIVE RStrip(_)
RStrip(s) ==
    IF s # <<>> /\ s[Len(s)] \in Whitespace
    THEN RStrip(SubSeq(s, 1, Len(s) - 1))
    ELSE s

\* str.strip()
Strip(s) == RStrip(LStrip(s))

LowerChar(c) ==
    CASE c = "Q" -> "q"
      [] c = "B" -> "b"
      [] c = "Y" -> "y"
      [] c = "N" -> "n"
      [] OTHER -> c

\* str.lower()
Lower(s) == [i \in 1..Len(s) |-> LowerChar(s[i])]

\* bool(x) of a str | None
Truthy(x) == x # None /\ x # <<>>

\* code points of the characters that occur in names
Ord(c) ==
    CASE c = " " -> 32
      [] c = "." -> 46
      [] c = ":" -> 58
      [] c = "a" -> 97
      [] c = "b" -> 98
      [] OTHER -> 127

\* s <= t in Python's string order
RECURSIVE LexLeq(_, _)
LexLeq(s, t) ==
    IF s = <<>> THEN TRUE
    ELSE IF t = <<>> THEN FALSE
    ELSE IF Head(s) = Head(t) THEN LexLeq(Tail(s), Tail(t))
    ELSE Ord(Head(s)) < Ord(Head(t))

\* sorted(S) for a set of distinct strings
RECURSIVE SortedSeq(_)
SortedSeq(S) ==
    IF S = {} THEN <<>>
    ELSE LET m == CHOOSE x \in S : \A y \in S : LexLeq(x, y)
         IN  <<m>> \o SortedSeq(S \ {m})

Digits == {"0", "1", "2", "3", "4", "5", "6", "7", "8", "9"}

DigitVal(c) ==
    CASE c = "0" -> 0 [] c = "1" -> 1 [] c = "2" -> 2 [] c = "3" -> 3
      [] c = "4" -> 4 [] c = "5" -> 5 [] c = "6" -> 6 [] c = "7" -> 7
      [] c = "8" -> 8 [] OTHER -> 9

\* int(s) does not raise ValueError (sign and decimal digits)
IsIntLiteral(s) ==
    LET body == IF s # <<>> /\ Head(s) \in {"+", "-"} THEN Tail(s) ELSE s
    IN  body # <<>> /\ Range(body) \subseteq Digits

RECURSIVE DigitsVal(_)
DigitsVal(s) ==
    IF s = <<>> THEN 0
    ELSE 10 * DigitsVal(SubSeq(s, 1, Len(s) - 1)) + DigitVal(s[Len(s)])

\* int(s)
IntValue(s) ==
    IF Head(s) = "-" THEN 0 - DigitsVal(Tail(s))
    ELSE IF Head(s) = "+" THEN DigitsVal(Tail(s))
    ELSE DigitsVal(s)

\* ------------------------------------------------------------ environment
\* characters the operator types at the project-name prompt
NameChars == {"a", ":", " "}

\* lines the operator may type at the project-name prompt
NameLines == SeqsUpTo(NameChars, MaxLen)

\* lines the operator may type at the menu, choice and index prompts
Lines ==
    { <<"q">>, <<" ", "Q">>, <<"1">>, <<"2">>, <<"3">>, <<"0">>,
      <<"-", "1">>, <<"b">>, <<"y">>, <<"n">>, <<"x">> }

\* entries that may exist under generations/ when the launcher starts
DirEntries ==
    { [name |-> <<"a">>,      isDir |-> TRUE],
      [name |-> <<"a", ":">>, isDir |-> TRUE],
      [name |-> <<".", "a">>, isDir |-> TRUE],
      [name |-> <<"a", "b">>, isDir |-> FALSE] }

\* what Path("generations") is
RootKinds == {"missing", "dir", "file", "unreadable"}

\* the marker check_spec_exists looks for
Marker == "<project_specification>"

\* contents prompts/app_spec.txt may have
SpecFiles ==
    { [exists |-> FALSE, content |-> <<>>],
      [exists |-> TRUE,  content |-> <<"text">>],
      [exists |-> TRUE,  content |-> <<"text", Marker>>] }

\* exit codes of a child process
ExitCodes == {0, 1}

\* ------------------------------------------------------------------ state
VARIABLES
    pc,              \* where the launcher is blocked
    prev,            \* pc before the last step
    event,           \* what the last step was
    line,            \* the line the last step read, as typed
    rootKind,        \* what Path("generations") is
    store,           \* entries of generations/
    specFile,        \* prompts/app_spec.txt
    claudeInstalled, \* the "claude" executable is on PATH
    projects,        \* main: projects
    choice,          \* the last line read, normalised
    name,            \* create_new_project_flow: project_name
    project_name,    \* main: project_name
    selected,        \* main: selected
    agentArg,        \* run_agent: project_name
    children,        \* child processes that are running
    named,           \* what get_new_project_name returned in this flow
    flowCalls,       \* arguments of the run_agent calls of this flow
    warned,          \* the missing-spec warning was printed in this flow
    confirmed,       \* the operator answered y to "Continue anyway?" in this flow
    specChecks,      \* check_spec_exists calls of this flow
    toolOutcome,     \* how the authoring tool of this flow ended
    checkLog,        \* what the last two check_spec_exists calls returned
    farewell         \* "Goodbye!" was printed

envVars == <<rootKind, store, specFile, claudeInstalled>>
histVars == <<named, flowCalls, warned, confirmed, specChecks, toolOutcome>>
vars == <<pc, prev, event, line, rootKind, store, specFile, claudeInstalled,
          projects, choice, name, project_name, selected, agentArg, children,
          named, flowCalls, warned, confirmed, specChecks, toolOutcome,
          checkLog, farewell>>


\* a local variable that has not been assigned
Unset == <<"<unset>">>

\* states in which the launcher is blocked in input()
Prompts ==
    {"MainMenu", "NewProjectNaming", "SpecDecision", "Confirm",
     "ProjectSelection"}

\* states in which the launcher is blocked in subprocess.run
Blocking == {"SpecAuthoring", "AgentRunning"}

\* ------------------------------------------------------- the pure functions
\* "<project_specification>" in content
ContainsMarker(content) == Marker \in Range(content)

\* mutant: the result of the first call is kept and returned from then on
check_spec_exists_Memo(f) ==
    IF checkLog # <<>> THEN checkLog[Len(checkLog)]
    ELSE IF ~f.exists THEN FALSE ELSE ContainsMarker(f.content)

\* mutant: the file's existence is taken for validity
check_spec_exists_ExistsOnly(f) == f.exists

check_spec_exists(f) ==
    IF ~f.exists THEN FALSE ELSE ContainsMarker(f.content)

\* generations_dir.iterdir() raises (NotADirectoryError, PermissionError)
ListRaises(kind) == kind \in {"file", "unreadable"}

\* mutant: hidden directories are not left out
IsProjectNoHidden(item) == item.isDir

\* item.is_dir() and not item.name.startswith('.')
IsProject(item) == item.isDir /\ Head(item.name) # "."

get_existing_projects(kind, st) ==
    IF kind = "missing" THEN <<>>
    ELSE SortedSeq({item.name : item \in {x \in st : IsProject(x)}})

invalid_chars == {"<", ">", ":", "\"", "/", "\\", "|", "?", "*"}

\* mutant: the line is not stripped
get_new_project_name_NoStrip(typed) ==
    IF typed = <<>> THEN None
    ELSE IF \E char \in invalid_chars : char \in Range(typed) THEN None
    ELSE typed

\* mutant: the scan for invalid characters is missing
get_new_project_name_NoScan(typed) ==
    LET nm == Strip(typed)
    IN  IF nm = <<>> THEN None ELSE nm

get_new_project_name(typed) ==
    LET nm == Strip(typed)
    IN  IF nm = <<>> THEN None
        ELSE IF \E char \in invalid_chars : char \in Range(nm) THEN None
        ELSE nm

\* 0 <= idx < len(projects)
IndexInRange(idx, n) == 0 <= idx /\ idx < n

\* mutant: the test is idx < len(projects) only, so that an index of 0
\* reaches projects[-1], the last project
get_project_choice_NoLowerBound(ch, projs) ==
    IF ch = <<"b">> THEN None
    ELSE IF ~IsIntLiteral(ch) THEN Unset
    ELSE LET idx == IntValue(ch) - 1
         IN  IF idx >= Len(projs) THEN Unset
             ELSE IF idx >= 0 THEN projs[idx + 1]
             ELSE IF Len(projs) + idx >= 0 THEN projs[Len(projs) + idx + 1]
             ELSE Unset

\* one round of the loop of get_project_choice: the value returned, or
\* Unset when the prompt is issued again
get_project_choice(ch, projs) ==
    IF ch = <<"b">> THEN None
    ELSE IF ~IsIntLiteral(ch) THEN Unset
    ELSE LET idx == IntValue(ch) - 1
         IN  IF IndexInRange(idx, Len(projs)) THEN projs[idx + 1] ELSE Unset

\* mutant: the continue branch does not look at the project list
ContinueSelectedAnyway(ch, projs) == ch = <<"2">>

\* main: choice == '2' and projects
ContinueSelected(ch, projs) == ch = <<"2">> /\ projs # <<>>

\* mutant: ask_spec_creation_choice returns whatever was typed
ValidSpecChoiceAny(ch) == TRUE

\* choice in ['1', '2', 'b']
ValidSpecChoice(ch) == ch \in {<<"1">>, <<"2">>, <<"b">>}

\* mutant: anything but n counts as consent
IsNotNo(ch) == ch # <<"n">>

\* confirm != 'y' is false
IsYes(ch) == ch = <<"y">>

\* ------------------------------------------------------------------- Init
StoresOf(kind) ==
    IF kind \in {"missing", "file"} THEN {{}}
    ELSE {st \in SUBSET DirEntries : Cardinality(st) <= MaxStore}

Init ==
    /\ rootKind \in RootKinds
    /\ store \in StoresOf(rootKind)
    /\ specFile \in SpecFiles
    /\ claudeInstalled \in BOOLEAN
    /\ pc = IF ListRaises(rootKind) THEN "Crashed" ELSE "MainMenu"
    /\ prev = "start"
    /\ event = "start"
    /\ line = Unset
    /\ projects = IF ListRaises(rootKind) THEN Unset
                  ELSE get_existing_projects(rootKind, store)
    /\ choice = Unset
    /\ name = Unset
    /\ project_name = Unset
    /\ selected = Unset
    /\ agentArg = Unset
    /\ children = {}
    /\ named = Unset
    /\ flowCalls = <<>>
    /\ warned = FALSE
    /\ confirmed = FALSE
    /\ specChecks = 0
    /\ toolOutcome = "none"
    /\ checkLog = <<>>
    /\ farewell = FALSE

\* ---------------------------------------------------------------- helpers
\* the log of check_spec_exists results after a call that returned r
Logged(log, r) ==
    IF Len(log) < 2 THEN Append(log, r) ELSE <<log[2], r>>

\* the process has ended: its frames and their locals are gone
ProcessGone ==
    /\ projects' = Unset
    /\ choice' = Unset
    /\ name' = Unset
    /\ project_name' = Unset
    /\ selected' = Unset
    /\ agentArg' = Unset
    /\ children' = children

\* the head of the loop of main: list the projects, show the menu, prompt
LoopHead(kind, st) ==
    IF ListRaises(kind)
    THEN pc' = "Crashed" /\ projects' = projects
    ELSE pc' = "MainMenu" /\ projects' = get_existing_projects(kind, st)

\* run_agent(arg), up to the blocking subprocess.run
run_agent(arg, ch) ==
    /\ pc' = "AgentRunning"
    /\ agentArg' = arg
    /\ children' = ch \cup {"agent"}
    /\ flowCalls' = Append(flowCalls, arg)
    /\ projects' = projects

\* no run_agent call: back to the head of the loop
NoAgent(ch) ==
    /\ LoopHead(rootKind, store)
    /\ agentArg' = agentArg
    /\ children' = ch
    /\ flowCalls' = flowCalls

\* mutant: an aborted flow leaves the name of the flow before it in place
\* (project_name = create_new_project_flow() or project_name)
MainCreateStale(r, ch) ==
    LET kept == IF Truthy(r) \/ project_name = Unset THEN r
                ELSE project_name
    IN  /\ project_name' = kept
        /\ name' = Unset
        /\ IF Truthy(kept) THEN run_agent(kept, ch) ELSE NoAgent(ch)

\* mutant: the "if project_name:" guard is missing
MainCreateUnguarded(r, ch) ==
    /\ project_name' = r
    /\ name' = Unset
    /\ run_agent(r, ch)

\* main: project_name = create_new_project_flow(), which returned r
MainCreate(r, ch) ==
    /\ project_name' = r
    /\ name' = Unset
    /\ IF Truthy(r) THEN run_agent(r, ch) ELSE NoAgent(ch)

\* main: selected = get_project_choice(projects), which returned r
MainContinue(r) ==
    /\ selected' = r
    /\ IF Truthy(r) THEN run_agent(r, children) ELSE NoAgent(children)


\* mutant: FileNotFoundError is not caught
NotFoundUncaught ==
    /\ toolOutcome' = "not_found"
    /\ pc' = "Crashed"
    /\ name' = Unset
    /\ project_name' = Unset
    /\ agentArg' = Unset
    /\ UNCHANGED <<children, flowCalls, projects, warned, specChecks,
                   checkLog>>

\* run_spec_creation: except FileNotFoundError, return False
NotFoundHandler ==
    /\ toolOutcome' = "not_found"
    /\ MainCreate(None, children)
    /\ UNCHANGED <<warned, specChecks, checkLog>>

\* ---------------------------------------------------------------- actions
\* main: choice = input("Select option: ").strip().lower() and its branches
MainSelect(typed) ==
    /\ pc = "MainMenu"
    /\ prev' = pc
    /\ event' = "line"
    /\ line' = typed
    /\ named' = Unset
    /\ flowCalls' = <<>>
    /\ warned' = FALSE
    /\ confirmed' = FALSE
    /\ specChecks' = 0
    /\ toolOutcome' = "none"
    /\ LET ch == Lower(Strip(typed))
       IN  IF ch = <<"q">>
           THEN pc' = "Exit" /\ farewell' = TRUE /\ ProcessGone
           ELSE /\ choice' = ch
                /\ farewell' = farewell
                /\ UNCHANGED <<name, project_name, selected, agentArg,
                               children>>
                /\ IF ch = <<"1">>
                   THEN pc' = "NewProjectNaming" /\ projects' = projects
                   ELSE IF ContinueSelected(ch, projects)
                   THEN pc' = "ProjectSelection" /\ projects' = projects
                   ELSE LoopHead(rootKind, store)
    /\ UNCHANGED <<envVars, checkLog>>

\* create_new_project_flow: project_name = get_new_project_name()
NameInput(typed) ==
    /\ pc = "NewProjectNaming"
    /\ prev' = pc
    /\ event' = "line"
    /\ line' = typed
    /\ LET r == get_new_project_name(typed)
       IN  /\ named' = r
           /\ IF ~Truthy(r)
              THEN MainCreate(None, children)
              ELSE /\ name' = r
                   /\ pc' = "SpecDecision"
                   /\ UNCHANGED <<project_name, agentArg, children,
                                  flowCalls, projects>>
    /\ UNCHANGED <<envVars, choice, selected, warned, confirmed, specChecks,
                   toolOutcome, checkLog, farewell>>

\* create_new_project_flow: choice = ask_spec_creation_choice() and its
\* branches, up to the next blocking call
SpecChoice(typed) ==
    /\ pc = "SpecDecision"
    /\ prev' = pc
    /\ event' = "line"
    /\ line' = typed
    /\ choice' = Lower(Strip(typed))
    /\ IF ~ValidSpecChoice(choice')
       THEN /\ pc' = "SpecDecision"
            /\ UNCHANGED <<name, project_name, agentArg, children, flowCalls,
                           projects, warned, specChecks, toolOutcome,
                           checkLog>>
       ELSE IF choice' = <<"b">>
       THEN /\ MainCreate(None, children)
            /\ UNCHANGED <<warned, specChecks, toolOutcome, checkLog>>
       ELSE IF choice' = <<"1">>
       THEN IF ~claudeInstalled
            THEN NotFoundHandler
            ELSE /\ pc' = "SpecAuthoring"
                 /\ children' = children \cup {"claude"}
                 /\ toolOutcome' = "running"
                 /\ UNCHANGED <<name, project_name, agentArg, flowCalls,
                                projects, warned, specChecks, checkLog>>
       ELSE /\ specChecks' = specChecks + 1
            /\ checkLog' = Logged(checkLog, check_spec_exists(specFile))
            /\ toolOutcome' = toolOutcome
            /\ IF check_spec_exists(specFile)
               THEN MainCreate(name, children) /\ warned' = warned
               ELSE /\ warned' = TRUE
                    /\ pc' = "Confirm"
                    /\ UNCHANGED <<name, project_name, agentArg, children,
                                   flowCalls, projects>>
    /\ UNCHANGED <<envVars, selected, named, confirmed, farewell>>

\* the authoring tool, while it runs, writes or removes prompts/app_spec.txt
ToolWritesSpec(f) ==
    /\ pc = "SpecAuthoring"
    /\ f # specFile
    /\ specFile' = f
    /\ prev' = pc
    /\ event' = "write"
    /\ line' = Unset
    /\ UNCHANGED <<pc, rootKind, store, claudeInstalled, projects, choice,
                   name, project_name, selected, agentArg, children, histVars,
                   checkLog, farewell>>

\* mutant: the specification is not checked again after the tool
ToolReturnsNoRecheck(code) ==
    /\ pc = "SpecAuthoring"
    /\ prev' = pc
    /\ event' = IF code = 0 THEN "exit0" ELSE "exit1"
    /\ line' = Unset
    /\ toolOutcome' = "completed"
    /\ specChecks' = specChecks
    /\ checkLog' = checkLog
    /\ MainCreate(name, children \ {"claude"})
    /\ UNCHANGED <<envVars, choice, selected, named, warned, confirmed,
                   farewell>>

\* mutant: the exit code of the tool decides, as with check=True
ToolReturnsByExitCode(code) ==
    /\ pc = "SpecAuthoring"
    /\ prev' = pc
    /\ event' = IF code = 0 THEN "exit0" ELSE "exit1"
    /\ line' = Unset
    /\ toolOutcome' = "completed"
    /\ specChecks' = specChecks + 1
    /\ checkLog' = Logged(checkLog, check_spec_exists(specFile))
    /\ IF code = 0 /\ check_spec_exists(specFile)
       THEN MainCreate(name, children \ {"claude"})
       ELSE MainCreate(None, children \ {"claude"})
    /\ UNCHANGED <<envVars, choice, selected, named, warned, confirmed,
                   farewell>>

\* run_spec_creation: subprocess.run returns with some exit code
ToolReturns(code) ==
    /\ pc = "SpecAuthoring"
    /\ prev' = pc
    /\ event' = IF code = 0 THEN "exit0" ELSE "exit1"
    /\ line' = Unset
    /\ toolOutcome' = "completed"
    /\ specChecks' = specChecks + 1
    /\ checkLog' = Logged(checkLog, check_spec_exists(specFile))
    /\ IF check_spec_exists(specFile)
       THEN MainCreate(name, children \ {"claude"})
       ELSE MainCreate(None, children \ {"claude"})
    /\ UNCHANGED <<envVars, choice, selected, named, warned, confirmed,
                   farewell>>

\* mutant: the interrupted tool is left running (Popen without kill and wait)
ToolInterruptedNoKill ==
    /\ pc = "SpecAuthoring"
    /\ prev' = pc
    /\ event' = "interrupt"
    /\ line' = Unset
    /\ toolOutcome' = "interrupted"
    /\ MainCreate(None, children)
    /\ UNCHANGED <<envVars, choice, selected, named, warned, confirmed,
                   specChecks, checkLog, farewell>>

\* run_spec_creation: KeyboardInterrupt out of subprocess.run
ToolInterrupted ==
    /\ pc = "SpecAuthoring"
    /\ prev' = pc
    /\ event' = "interrupt"
    /\ line' = Unset
    /\ toolOutcome' = "interrupted"
    /\ MainCreate(None, children \ {"claude"})
    /\ UNCHANGED <<envVars, choice, selected, named, warned, confirmed,
                   specChecks, checkLog, farewell>>

\* create_new_project_flow: confirm = input("Continue anyway? [y/N]: ")
ConfirmInput(typed) ==
    /\ pc = "Confirm"
    /\ prev' = pc
    /\ event' = "line"
    /\ line' = typed
    /\ choice' = Lower(Strip(typed))
    /\ confirmed' = (choice' = <<"y">>)
    /\ IF IsYes(choice')
       THEN MainCreate(name, children)
       ELSE MainCreate(None, children)
    /\ UNCHANGED <<envVars, selected, named, warned, specChecks,
                   toolOutcome, checkLog, farewell>>

\* main: selected = get_project_choice(projects), one line of input
ProjectIndexInput(typed) ==
    /\ pc = "ProjectSelection"
    /\ prev' = pc
    /\ event' = "line"
    /\ line' = typed
    /\ choice' = Lower(Strip(typed))
    /\ LET r == get_project_choice(choice', projects)
       IN  IF r = Unset
           THEN /\ pc' = "ProjectSelection"
                /\ UNCHANGED <<selected, agentArg, children, flowCalls,
                               projects>>
           ELSE MainContinue(r)
    /\ UNCHANGED <<envVars, name, project_name, named, warned, confirmed,
                   specChecks, toolOutcome, checkLog, farewell>>

\* KeyboardInterrupt out of input(): no handler on the way up through main
PromptInterrupt ==
    /\ pc \in Prompts
    /\ prev' = pc
    /\ event' = "interrupt"
    /\ line' = Unset
    /\ pc' = "Crashed"
    /\ ProcessGone
    /\ UNCHANGED <<envVars, histVars, checkLog, farewell>>

\* run_agent: subprocess.run returns with some exit code
AgentReturns(code) ==
    /\ pc = "AgentRunning"
    /\ prev' = pc
    /\ event' = IF code = 0 THEN "exit0" ELSE "exit1"
    /\ line' = Unset
    /\ agentArg' = Unset
    /\ children' = children \ {"agent"}
    /\ LoopHead(rootKind, store)
    /\ UNCHANGED <<envVars, choice, name, project_name, selected, histVars,
                   checkLog, farewell>>

\* mutant: run_agent has no except KeyboardInterrupt
AgentInterruptedUncaught ==
    /\ pc = "AgentRunning"
    /\ prev' = pc
    /\ event' = "interrupt"
    /\ line' = Unset
    /\ pc' = "Crashed"
    /\ ProcessGone
    /\ UNCHANGED <<envVars, histVars, checkLog, farewell>>

\* run_agent: KeyboardInterrupt out of subprocess.run
AgentInterrupted ==
    /\ pc = "AgentRunning"
    /\ prev' = pc
    /\ event' = "interrupt"
    /\ line' = Unset
    /\ agentArg' = Unset
    /\ children' = children \ {"agent"}
    /\ LoopHead(rootKind, store)
    /\ UNCHANGED <<envVars, choice, name, project_name, selected, histVars,
                   checkLog, farewell>>

Next ==
    \/ \E typed \in Lines : MainSelect(typed)
    \/ \E typed \in NameLines : NameInput(typed)
    \/ \E typed \in Lines : SpecChoice(typed)
    \/ \E f \in SpecFiles : ToolWritesSpec(f)
    \/ \E code \in ExitCodes : ToolReturns(code)
    \/ ToolInterrupted
    \/ \E typed \in Lines : ConfirmInput(typed)
    \/ \E typed \in Lines : ProjectIndexInput(typed)
    \/ PromptInterrupt
    \/ \E code \in ExitCodes : AgentReturns(code)
    \/ AgentInterrupted

Spec == Init /\ [][Next]_vars

TypeOK ==
    /\ pc \in Prompts \cup Blocking \cup {"Exit", "Crashed"}
    /\ children \subseteq {"claude", "agent"}
    /\ specFile \in SpecFiles
    /\ Cardinality(store) <= MaxStore


\* ----------------------------------------------------------------- claims
\* the specification file holds the marker (stated apart from the code's check)
SpecIsValid ==
    /\ specFile.exists
    /\ \E i \in DOMAIN specFile.content : specFile.content[i] = Marker

\* x is a project identifier: assigned, not None, not empty
Resolved(x) == x # Unset /\ x # None /\ x # <<>>

\* x holds none of the characters < > : " / \ | ? *
CharValidated(x) ==
    \A i \in DOMAIN x :
        x[i] \notin {"<", ">", ":", "\"", "/", "\\", "|", "?", "*"}

\* the names of the project directories of the store
StoreProjectNames ==
    {item.name : item \in {x \in store : x.isDir /\ x.name[1] # "."}}

\* the states of the new-project flow from which run_agent is reached
NewProjectStates == {"SpecDecision", "SpecAuthoring", "Confirm"}

\* the prompts inside a flow
FlowPrompts == {"NewProjectNaming", "SpecDecision", "Confirm",
                "ProjectSelection"}

\* the last step was the end of the authoring tool's process
ToolCompleted == prev = "SpecAuthoring" /\ event \in {"exit0", "exit1"}

\* C1: run_agent is never called with an empty or unresolved (None)
\* project identifier: every call of the flow, and the call the launcher is
\* blocked in, has a resolved argument.
C1_AgentArgResolved ==
    /\ \A i \in DOMAIN flowCalls : Resolved(flowCalls[i])
    /\ pc = "AgentRunning" => Resolved(agentArg)

\* C1 witness: the agent runs for a name the operator has just typed, in a
\* run where a rejected name was possible.
C1_Witness ==
    /\ pc = "AgentRunning"
    /\ prev = "SpecAuthoring"
    /\ agentArg = named

\* C2, as stated: the identifier passed to run_agent never holds one of the
\* characters < > : " / \ | ? *, on either path.
C2_AlwaysCharValidated ==
    pc = "AgentRunning" => CharValidated(agentArg)

\* C2, amended: on the new-project path the identifier passed to run_agent
\* never holds one of these characters; on the continue-existing path it is
\* the name of a project directory of the store, taken as it is.
C2_NewPathCharValidated ==
    /\ (pc = "AgentRunning" /\ prev \in NewProjectStates)
          => CharValidated(agentArg)
    /\ (pc = "AgentRunning" /\ prev = "ProjectSelection")
          => agentArg \in StoreProjectNames

\* C2 witness: the agent runs for a typed name while the store holds a
\* directory whose name has a colon.
C2_Witness ==
    /\ pc = "AgentRunning"
    /\ prev = "SpecDecision"
    /\ \E item \in store : ~CharValidated(item.name) /\ item.isDir

\* C3: an interrupt while the launcher is blocked in the authoring tool or
\* in the build agent leaves the launcher running at the main menu.
C3_ToolInterruptRecovers ==
    (event = "interrupt" /\ prev \in Blocking) => pc = "MainMenu"

\* C3 witness: the build agent was interrupted and the menu is shown again.
C3_Witness ==
    /\ event = "interrupt"
    /\ prev = "AgentRunning"
    /\ pc = "MainMenu"
    /\ children = {}

\* C4, as stated: an interrupt at a prompt inside a flow returns control to
\* the main menu.
C4_PromptInterruptAbortsFlow ==
    (event = "interrupt" /\ prev \in FlowPrompts) => pc = "MainMenu"

\* C5, as stated: an interrupt at the main menu prompt ends the launcher as
\* the q selection does, with the farewell message and a normal exit.
C5_MenuInterruptIsQuit ==
    (event = "interrupt" /\ prev = "MainMenu") => (pc = "Exit" /\ farewell)

\* C6, as stated: whenever the agent runs while the specification is
\* invalid, the operator was warned and confirmed in that flow.
C6_InvalidSpecNeverBypassed ==
    (pc = "AgentRunning" /\ ~SpecIsValid) => (warned /\ confirmed)

\* C6, amended: on the new-project paths, whenever the agent runs while the
\* specification is invalid, the operator was warned and confirmed in that
\* flow; the continue-existing path reaches the agent without any check of
\* the specification and without a warning.
C6_NewPathGated ==
    /\ (pc = "AgentRunning" /\ prev \in NewProjectStates /\ ~SpecIsValid)
          => (warned /\ confirmed)
    /\ (pc = "AgentRunning" /\ prev = "ProjectSelection")
          => (specChecks = 0 /\ ~warned /\ ~confirmed)

\* C6 witness: the agent runs with an invalid specification after the
\* operator's explicit consent.
C6_Witness ==
    /\ pc = "AgentRunning"
    /\ ~SpecIsValid
    /\ warned
    /\ confirmed

\* C7: after the skip selection a valid specification leads to the agent
\* with the entered name and an invalid one to the confirmation prompt;
\* there y leads to the agent with the entered name and n to the main menu
\* with no agent call in the flow.
C7_SkipDecision ==
    /\ (prev = "SpecDecision" /\ event = "line" /\ choice = <<"2">>)
          => IF SpecIsValid
             THEN pc = "AgentRunning" /\ agentArg = named
                  /\ flowCalls = <<named>> /\ ~warned
             ELSE pc = "Confirm" /\ warned /\ flowCalls = <<>>
    /\ (prev = "Confirm" /\ event = "line" /\ choice = <<"y">>)
          => (pc = "AgentRunning" /\ agentArg = named
              /\ flowCalls = <<named>>)
    /\ (prev = "Confirm" /\ event = "line" /\ choice = <<"n">>)
          => (pc = "MainMenu" /\ flowCalls = <<>>)

\* C7 witness: the operator declined the override and is back at the menu.
C7_Witness ==
    /\ prev = "Confirm"
    /\ choice = <<"n">>
    /\ pc = "MainMenu"
    /\ ~SpecIsValid
    /\ Resolved(named)

\* C8: while in SpecAuthoring the tool runs; once it has returned the
\* specification has been checked again, and the agent is called exactly
\* once with the entered name if it is valid, not at all if it is not.
C8_AuthoringRecheck ==
    /\ pc = "SpecAuthoring" => (children = {"claude"} /\ flowCalls = <<>>)
    /\ ToolCompleted
          => /\ specChecks = 1
             /\ IF SpecIsValid
                THEN pc = "AgentRunning" /\ flowCalls = <<named>>
                     /\ agentArg = named
                ELSE pc = "MainMenu" /\ flowCalls = <<>>

\* C8 witness: the tool exited, the specification is valid and the agent
\* runs for the entered name.
C8_Witness ==
    /\ ToolCompleted
    /\ event = "exit0"
    /\ SpecIsValid
    /\ pc = "AgentRunning"
    /\ flowCalls = <<named>>

\* C9, as stated: however the tool's process ended (completed with any exit
\* code, or interrupted), a valid specification leads to the agent and an
\* invalid one to the main menu.
C9_ValidityAloneDecides ==
    (prev = "SpecAuthoring" /\ event \in {"exit0", "exit1", "interrupt"})
        => IF SpecIsValid THEN pc = "AgentRunning" ELSE pc = "MainMenu"

\* C9, amended: when the tool's process completed, with any exit code, a
\* valid specification leads to the agent and an invalid one to the main
\* menu; when it was interrupted the flow returns to the main menu without
\* a check of the specification, valid or not.
C9_CompletedValidityDecides ==
    /\ ToolCompleted
          => IF SpecIsValid THEN pc = "AgentRunning" ELSE pc = "MainMenu"
    /\ (prev = "SpecAuthoring" /\ event = "interrupt")
          => (pc = "MainMenu" /\ specChecks = 0 /\ flowCalls = <<>>)

\* C9 witness: the tool exited with a non-zero code, the specification is
\* valid and the agent runs.
C9_Witness ==
    /\ prev = "SpecAuthoring"
    /\ event = "exit1"
    /\ SpecIsValid
    /\ pc = "AgentRunning"

\* C10: when the authoring tool is not found the flow is back at the main
\* menu, no agent was called and the specification was not checked.
C10_ToolNotFoundAborts ==
    (prev = "SpecDecision" /\ toolOutcome = "not_found")
        => (pc = "MainMenu" /\ flowCalls = <<>> /\ specChecks = 0
            /\ children = {})

\* C10 witness: the tool was not found although the specification is valid,
\* and the menu is shown again.
C10_Witness ==
    /\ prev = "SpecDecision"
    /\ toolOutcome = "not_found"
    /\ SpecIsValid
    /\ pc = "MainMenu"


\* the last step read this line at the prompt p; norm is the line as the
\* prompts compare it, stripped and in lower case
ReadAt(p) == prev = p /\ event = "line"

Norm == Lower(Strip(line))

\* C11: with no project in the store the continue-existing selection is
\* rejected at the main menu: the menu is shown again and no agent is
\* called; the project selection is only entered with a project to select.
C11_ContinueNeedsProject ==
    /\ (ReadAt("MainMenu") /\ Norm = <<"2">> /\ StoreProjectNames = {})
          => (pc = "MainMenu" /\ projects = <<>> /\ flowCalls = <<>>)
    /\ (ReadAt("MainMenu") /\ Norm = <<"2">> /\ StoreProjectNames # {}
        /\ rootKind = "dir")
          => pc = "ProjectSelection"
    /\ pc = "ProjectSelection" => (projects # <<>> /\ StoreProjectNames # {})

\* C11 witness: 2 was typed at the menu of a store that holds entries but
\* no project, and the menu is shown again.
C11_Witness ==
    /\ ReadAt("MainMenu")
    /\ Norm = <<"2">>
    /\ store # {}
    /\ StoreProjectNames = {}
    /\ pc = "MainMenu"


\* s consists of blanks only (it is empty after trimming)
Blank(s) == \A i \in DOMAIN s : s[i] = " "

\* t is s without the blanks around it
Trimmed(s, t) ==
    \E i, j \in DOMAIN s :
        /\ i <= j
        /\ t = SubSeq(s, i, j)
        /\ s[i] # " "
        /\ s[j] # " "
        /\ \A k \in DOMAIN s : (k < i \/ k > j) => s[k] = " "

\* C12: a project name that is empty after trimming or holds one of the
\* characters < > : " / \ | ? * sends the flow back to the main menu with
\* no authoring tool and no agent started; any other name leads to the
\* specification decision, the flow holding the trimmed name.
C12_NameValidation ==
    ReadAt("NewProjectNaming")
        => IF Blank(line) \/ ~CharValidated(line)
           THEN /\ pc = "MainMenu"
                /\ named = None
                /\ flowCalls = <<>>
                /\ children = {}
                /\ toolOutcome = "none"
           ELSE /\ pc = "SpecDecision"
                /\ Trimmed(line, name)
                /\ named = name

\* C12 witness: a name with a colon was typed and the menu is shown again.
C12_Witness ==
    /\ ReadAt("NewProjectNaming")
    /\ ~Blank(line)
    /\ ~CharValidated(line)
    /\ pc = "MainMenu"


\* the prompts that take a token of a closed set
ClosedPrompts == {"MainMenu", "SpecDecision", "Confirm", "ProjectSelection"}

\* the normalised line is a 1-based index into the project list
IsIndexToken ==
    /\ IsIntLiteral(Norm)
    /\ 1 <= IntValue(Norm)
    /\ IntValue(Norm) <= Cardinality(StoreProjectNames)

\* the normalised line is a token the prompt p offers
ValidAt(p) ==
    CASE p = "MainMenu" ->
           \/ Norm \in {<<"q">>, <<"1">>}
           \/ Norm = <<"2">> /\ StoreProjectNames # {} /\ rootKind = "dir"
      [] p = "SpecDecision" -> Norm \in {<<"1">>, <<"2">>, <<"b">>}
      [] p = "Confirm" -> Norm \in {<<"y">>, <<"n">>}
      [] p = "ProjectSelection" -> Norm = <<"b">> \/ IsIndexToken
      [] OTHER -> FALSE

\* the transition the valid token read at p stands for was taken
Resolves(p) ==
    CASE p = "MainMenu" ->
           /\ Norm = <<"q">> => pc = "Exit"
           /\ Norm = <<"1">> => pc = "NewProjectNaming"
           /\ Norm = <<"2">> => pc = "ProjectSelection"
      [] p = "SpecDecision" ->
           /\ Norm = <<"b">> => (pc = "MainMenu" /\ flowCalls = <<>>)
           /\ Norm = <<"1">> => pc \in {"SpecAuthoring", "MainMenu"}
           /\ Norm = <<"2">> => pc \in {"AgentRunning", "Confirm"}
      [] p = "Confirm" ->
           /\ Norm = <<"y">> => (pc = "AgentRunning" /\ Len(flowCalls) = 1)
           /\ Norm = <<"n">> => (pc = "MainMenu" /\ flowCalls = <<>>)
      [] p = "ProjectSelection" ->
           /\ Norm = <<"b">> => (pc = "MainMenu" /\ flowCalls = <<>>)
           /\ IsIndexToken => (pc = "AgentRunning" /\ Len(flowCalls) = 1)
      [] OTHER -> FALSE

LexLess(s, t) ==
    \E k \in 1..(Len(t)) :
        /\ \A i \in 1..(k - 1) : i <= Len(s) /\ s[i] = t[i]
        /\ k - 1 <= Len(s)
        /\ (k = Len(s) + 1 \/ (k <= Len(s) /\ Ord(s[k]) < Ord(t[k])))

\* the place of the project x in the sorted list of the store's projects
Rank(x) == 1 + Cardinality({y \in StoreProjectNames : LexLess(y, x)})

\* C14: at the project index prompt an index i of 1..n calls the agent
\* exactly once, with the i-th project of the sorted list; 0, a negative
\* index and an index above n select nothing and leave the prompt open; b
\* returns to the main menu with no agent call.
C14_IndexSelection ==
    ReadAt("ProjectSelection")
        => /\ IsIndexToken
                => /\ pc = "AgentRunning"
                   /\ flowCalls = <<agentArg>>
                   /\ agentArg \in StoreProjectNames
                   /\ Rank(agentArg) = IntValue(Norm)
                   /\ selected = agentArg
           /\ (IsIntLiteral(Norm) /\ ~IsIndexToken)
                => (pc = "ProjectSelection" /\ flowCalls = <<>>)
           /\ Norm = <<"b">>
                => (pc = "MainMenu" /\ flowCalls = <<>> /\ selected = None)

\* C14 witness: with two projects in the store the index 2 was typed and
\* the agent runs for the second of them.
C14_Witness ==
    /\ ReadAt("ProjectSelection")
    /\ Cardinality(StoreProjectNames) = 2
    /\ Norm = <<"2">>
    /\ pc = "AgentRunning"
    /\ \E x \in StoreProjectNames : LexLess(x, agentArg)


\* C15, as stated: when the project store root cannot be enumerated (it is
\* a regular file, or a directory that cannot be read) the project list is
\* empty and the launcher is at the main menu, not terminated.
C15_ListErrorMeansNoProjects ==
    rootKind \in {"file", "unreadable"}
        => (pc # "Crashed" /\ (pc = "MainMenu" => projects = <<>>))


\* C16: the project list is exactly the names of the subdirectories of the
\* store root whose name does not start with a dot, each once, in
\* lexicographic order, and it is empty when the root does not exist; no
\* file and no hidden entry is in it.
C16_ProjectListing ==
    pc \notin {"Crashed", "Exit"}
        => /\ rootKind = "missing" => projects = <<>>
           /\ Range(projects) = StoreProjectNames
           /\ Len(projects) = Cardinality(StoreProjectNames)
           /\ \A i, j \in DOMAIN projects :
                  i < j => LexLess(projects[i], projects[j])
           /\ \A i \in DOMAIN projects :
                  /\ projects[i][1] # "."
                  /\ \E item \in store :
                         item.name = projects[i] /\ item.isDir

\* C16 witness: the store holds a project next to a hidden directory or a
\* file, and the list at the main menu holds the project alone.
C16_Witness ==
    /\ pc = "MainMenu"
    /\ prev = "start"
    /\ Len(projects) = 1
    /\ \E item \in store : item.name \notin Range(projects)


\* the last step called check_spec_exists
CheckedNow == (ReadAt("SpecDecision") /\ Norm = <<"2">>) \/ ToolCompleted

\* this step calls check_spec_exists
CheckStep == specChecks' = specChecks + 1

\* what the last call of check_spec_exists returned
LastCheck == checkLog[Len(checkLog)]

\* C17: check_spec_exists is true exactly when the specification file
\* exists and holds the marker; every call returns the validity of the file
\* as it is at that call, whatever earlier calls returned, so that a change
\* made by the authoring tool is seen by the next call; and a call leaves
\* the file as it was.
C17_FreshCheck ==
    /\ [](check_spec_exists(specFile) = SpecIsValid)
    /\ [](CheckedNow => (checkLog # <<>> /\ LastCheck = SpecIsValid))
    /\ [][CheckStep => (specFile' = specFile /\ LastCheck' = SpecIsValid')]_vars

\* C17 witness: a call returned false, the authoring tool then wrote the
\* marker, and the call after the tool returned true.
C17_Witness ==
    /\ ToolCompleted
    /\ checkLog = <<FALSE, TRUE>>
    /\ SpecIsValid
    /\ pc = "AgentRunning"


\* C18: at most one child process runs at any time: the authoring tool
\* alone while the launcher is blocked in it, the build agent alone while
\* the launcher is blocked in it, and none at a prompt; the agent of a
\* new-project flow runs only once the tool of that flow has ended.
C18_OneChildAtATime ==
    /\ Cardinality(children) <= 1
    /\ pc = "SpecAuthoring" => children = {"claude"}
    /\ pc = "AgentRunning" => children = {"agent"}
    /\ pc \in Prompts => children = {}

\* C18 witness: the agent of a new-project flow runs after the authoring
\* tool of that flow has completed.
C18_Witness ==
    /\ pc = "AgentRunning"
    /\ prev = "SpecAuthoring"
    /\ toolOutcome = "completed"
    /\ children = {"agent"}


\* C19, as stated: the launcher ends only by the quit selection at the main
\* menu; no interrupt, input, state or environment error ends it.
C19_OnlyQuitEnds ==
    pc \in {"Exit", "Crashed"}
        => (pc = "Exit" /\ ReadAt("MainMenu") /\ Norm = <<"q">> /\ farewell)

\* C20: the agent is called at most once in a flow, with the name typed or
\* the project selected in that flow; a flow that was aborted leaves no
\* name behind: it made no call and main holds None for it.
C20_NoNameSurvives ==
    /\ Len(flowCalls) <= 1
    /\ pc = "AgentRunning" => flowCalls = <<agentArg>>
    /\ (pc = "AgentRunning" /\ prev \in NewProjectStates)
          => (Resolved(named) /\ agentArg = named /\ project_name = named)
    /\ (pc = "AgentRunning" /\ prev = "ProjectSelection")
          => /\ named = Unset
             /\ agentArg \in StoreProjectNames
             /\ Rank(agentArg) = IntValue(Norm)
             /\ selected = agentArg
    /\ (pc = "MainMenu" /\ event # "start" /\ prev # "AgentRunning")
          => /\ flowCalls = <<>>
             /\ name = Unset
             /\ prev \in NewProjectStates \cup {"NewProjectNaming"}
                   => project_name = None
             /\ prev = "ProjectSelection" => selected = None

\* C20 witness: the agent runs for the project selected in this flow while
\* main still holds the different name of an earlier new-project flow.
C20_Witness ==
    /\ pc = "AgentRunning"
    /\ prev = "ProjectSelection"
    /\ Resolved(project_name)
    /\ project_name # agentArg

====
